---------------------------- MODULE Spec2Model ----------------------------
(***************************************************************************)
(* A model of src/wasm_storage_core.rs: the WasmStorage container, an      *)
(* observable key/value map with a dispatch pipeline.                      *)
(*                                                                         *)
(* The container has three fields, each behind its own std::sync::Mutex:   *)
(* state (HashMap<String, JsValue>), listeners and middleware (vectors of  *)
(* host functions).  Every exported method is modelled from its code.  A   *)
(* method is split into steps where it takes or drops a lock and where it  *)
(* calls a host function; pc[c] is the position of caller c.               *)
(*                                                                         *)
(* JsValue is modelled by records of one shape (tag t, number n, string s, *)
(* own properties e in iteration order).  Timestamps (js_sys::Date::now)   *)
(* are carried as the fixed value Now: no code path reads them.            *)
(*                                                                         *)
(* Three hosts use the container.  Spec is a host with one thread that     *)
(* makes any call; SpecConc is a host with two threads, every interleaving *)
(* of their steps; SpecFair is that host under fair scheduling.            *)
(***************************************************************************)
EXTENDS Integers, Sequences, FiniteSets, TLC

VARIABLES
    state,           \* WasmStorage.state: the HashMap, a function on its keys
    listeners,       \* WasmStorage.listeners: Vec<js_sys::Function>
    middleware,      \* WasmStorage.middleware: Vec<js_sys::Function>
    stateLock,       \* holder of the state mutex, or Free
    listenersLock,   \* holder of the listeners mutex, or Free
    middlewareLock,  \* holder of the middleware mutex, or Free
    pc,              \* pc[c]: position of caller c
    call,            \* call[c]: the exported method c invoked, with its arguments
    loc,             \* loc[c]: locals of the running method
    res,             \* res[c]: what the method returned to the host
    delivered,       \* delivered[c]: listener invocations made by c's call
    invoked,         \* invoked[c]: middleware invocations made by c's call
    expect,          \* per key, the value of the last set_state that returned Ok
    lastEvent,       \* per listener and key, the value of the last event it was given
    host             \* the host program that uses the container (never changes)

vars == <<state, listeners, middleware, stateLock, listenersLock, middlewareLock,
          pc, call, loc, res, delivered, invoked, expect, lastEvent, host>>

-----------------------------------------------------------------------------
(* Bounds of the model *)

MaxListeners == 2
MaxMiddleware == 2

(* Date::now(), abstracted to one instant *)
Now == 0

-----------------------------------------------------------------------------
(* JsValue *)

Undefined == [t |-> "undef", n |-> 0, s |-> "", e |-> <<>>]
Null == [t |-> "null", n |-> 0, s |-> "", e |-> <<>>]
Num(x) == [t |-> "num", n |-> x, s |-> "", e |-> <<>>]
Str(x) == [t |-> "str", n |-> 0, s |-> x, e |-> <<>>]
Obj(props) == [t |-> "obj", n |-> 0, s |-> "", e |-> props]

is_undefined(v) == v.t = "undef"
is_null(v) == v.t = "null"
is_object(v) == v.t = "obj"

(* A conversion that yields a string for every value, the empty one for a
   value that is no string.  C18 fails with it. *)
as_string_or_default(v) == <<v.s>>

(* JsValue::as_string: Some(s) for a JS string, None otherwise *)
as_string(v) == IF v.t = "str" THEN <<v.s>> ELSE <<>>

(* Result<JsValue, JsValue> *)
Ok(v) == [status |-> "ok", val |-> v, all |-> {}]
Err(v) == [status |-> "err", val |-> v, all |-> {}]
OkAll(pairs) == [status |-> "ok", val |-> Undefined, all |-> pairs]
NoResult == [status |-> "none", val |-> Undefined, all |-> {}]

HasProp(o, name) == \E i \in 1..Len(o.e) : o.e[i][1] = name

PropOf(o, name) ==
    LET i == CHOOSE j \in 1..Len(o.e) : o.e[j][1] = name IN o.e[i][2]

(* js_sys::Reflect::get: throws a TypeError on a target that is no object,
   yields undefined for a property the object does not have *)
ReflectGet(target, name) ==
    IF ~is_object(target) THEN Err(Str("TypeError"))
    ELSE IF HasProp(target, name) THEN Ok(PropOf(target, name))
    ELSE Ok(Undefined)

(* The entries last to first.  C3 fails with it. *)
ObjectEntriesReversed(o) ==
    [i \in 1..Len(o.e) |-> <<o.e[Len(o.e) + 1 - i][1], o.e[Len(o.e) + 1 - i][2]>>]

(* js_sys::Object::entries: the own properties as [key, value] pairs in the
   object's iteration order *)
ObjectEntries(o) == [i \in 1..Len(o.e) |-> <<o.e[i][1], o.e[i][2]>>]

-----------------------------------------------------------------------------
(* HashMap<String, JsValue> *)

EmptyMap == [k \in {} |-> Null]

(* Insert as HashMap::entry(k).or_insert(v) would do it: an existing entry
   is kept.  C1 fails with it. *)
InsertIfAbsent(m, k, v) ==
    [x \in (DOMAIN m) \cup {k} |-> IF x \in DOMAIN m THEN m[x] ELSE v]

(* A map rebuilt from the one pair: every other entry is lost.  C17 fails
   with it. *)
InsertAlone(m, k, v) == [x \in {k} |-> v]

(* HashMap::insert *)
Insert(m, k, v) == [x \in (DOMAIN m) \cup {k} |-> IF x = k THEN v ELSE m[x]]

(* A remove that takes out every entry.  C14 fails with it. *)
RemoveEvery(m, k) == EmptyMap

(* A remove that leaves the entry in place.  C10 fails with it. *)
RemoveNothing(m, k) == m

Remove(m, k) == [x \in (DOMAIN m) \ {k} |-> m[x]]

(* state.get(key).cloned().unwrap_or(JsValue::NULL) *)
Lookup(m, k) == IF k \in DOMAIN m THEN m[k] ELSE Null

(* HashMap::retain with a predicate that keeps every entry.  C11 fails with
   it. *)
ClearNothing(m) == m

(* HashMap::clear *)
Clear(m) == EmptyMap

(* Vec::pop in place of Vec::remove: the last element goes, whatever the
   index.  C16 fails with it. *)
VecPop(v, index) == SubSeq(v, 1, Len(v) - 1)

(* Vec::remove(index), index 0-based *)
VecRemove(v, index) ==
    [j \in 1..(Len(v) - 1) |-> IF j <= index THEN v[j] ELSE v[j + 1]]

(* The length of the vector after the push, as the handle.  C15 fails with
   it. *)
HandleAfterPush(ls) == Len(ls)

(* (listeners.len() - 1) as u32, taken after the push *)
Handle(ls) == Len(ls) - 1

-----------------------------------------------------------------------------
(* The host: callers, callbacks and the arguments they pass *)

Free == "free"

Keys == {"a", "b"}
Values == {Num(1), Num(2)}
Kinds == {"SET_STATE", "REMOVE_STATE", "CLEAR_STATE", "FOO"}
Payloads == {Num(1), Str("a"), Obj(<< <<"a", Num(1)>>, <<"b", Num(2)>> >>)}

(* Listener callbacks.  What a listener does when called is the host's
   choice at each call: it returns, it throws, or it calls get_state of the
   key it is told about and then returns. *)
ListenerFns == {"f", "g"}
ListenerOutcomes == {"return", "throw", "get_state"}

(* Middleware callbacks: two host functions of the action they are given.
   inc adds 1 to a numeric payload and returns the changed action; it
   returns nothing for a string payload and null for any other payload.
   dbl doubles a numeric payload and returns the changed action; it throws
   on a string payload, answers an object payload with an object that has no
   payload property, and answers any other payload with a primitive. *)
MiddlewareFns == {"inc", "dbl"}

ActionObj(type, payload) ==
    Obj(<< <<"type", Str(type)>>, <<"payload", payload>>, <<"timestamp", Num(Now)>> >>)

MiddlewareCall(fn, action) ==
    LET p == PropOf(action, "payload")
        type == PropOf(action, "type").s
    IN  IF fn = "inc"
        THEN CASE p.t = "num" -> Ok(ActionObj(type, Num(p.n + 1)))
               [] p.t = "str" -> Ok(Undefined)
               [] OTHER -> Ok(Null)
        ELSE CASE p.t = "num" -> Ok(ActionObj(type, Num(2 * p.n)))
               [] p.t = "str" -> Err(Str("rejected"))
               [] p.t = "obj" -> Ok(Obj(<< <<"handled", Num(1)>> >>))
               [] OTHER -> Ok(Str("skipped"))

NoCall ==
    [name |-> "none", key |-> "", value |-> Undefined, kind |-> "",
     payload |-> Undefined, fn |-> "", index |-> 0]

Invocations ==
    {[NoCall EXCEPT !.name = "set_state", !.key = k, !.value = v] : k \in Keys, v \in Values}
    \cup {[NoCall EXCEPT !.name = n, !.key = k] : n \in {"get_state", "remove_state"}, k \in Keys}
    \cup {[NoCall EXCEPT !.name = n] : n \in {"get_all_state", "clear_state"}}
    \cup {[NoCall EXCEPT !.name = "dispatch", !.kind = t, !.payload = p] : t \in Kinds, p \in Payloads}
    \cup {[NoCall EXCEPT !.name = "subscribe", !.fn = f] : f \in ListenerFns}
    \cup {[NoCall EXCEPT !.name = "unsubscribe", !.index = i] : i \in 0..MaxListeners}
    \cup {[NoCall EXCEPT !.name = "add_middleware", !.fn = f] : f \in MiddlewareFns}

(* The methods whose effect on the map the properties compare with the map
   they started from *)
Mutators == {"remove_state", "clear_state", "dispatch"}

(* The methods whose effect on the registered listeners the properties
   compare with the container they started from *)
ListenerOps == {"subscribe", "unsubscribe"}

(* Locals of a running method *)
NoLocals ==
    [key |-> "", value |-> Undefined, mutator |-> "", ret |-> "",
     event |-> Undefined, li |-> 0,
     cur |-> Undefined, mi |-> 0, err |-> NoResult,
     entries |-> <<>>, ei |-> 0,
     pre |-> <<>>,     \* the map when the method was invoked (kept for the properties)
     prels |-> <<>>,   \* the listeners when the method was invoked (likewise)
     premw |-> <<>>,   \* the middleware when the method was invoked (likewise)
     due |-> <<>>]     \* expect when get_all_state read the map (likewise)

OneCaller == {"c1"}

(* A host with two threads that share the container.  Both write a key of
   their own.  The first also reads the whole map, dispatches, subscribes
   and adds middleware; the second also removes the key of the first, reads
   it, clears the map and unsubscribes.  The listeners return: none throws, and
   none calls back into the container. *)

TwoCallers == {"c1", "c2"}

ThreadKey(c) == IF c = "c1" THEN "a" ELSE "b"
ThreadValue(c) == IF c = "c1" THEN Num(1) ELSE Num(2)

ThreadMenu(c) ==
    {inv \in Invocations :
        \/ inv.name = "set_state" /\ inv.key = ThreadKey(c) /\ inv.value = ThreadValue(c)
        \/ /\ c = "c1"
           /\ \/ inv.name = "get_all_state"
              \/ inv.name = "dispatch" /\ inv.kind = "SET_STATE" /\ inv.payload.t = "obj"
              \/ inv.name = "subscribe" /\ inv.fn = "f"
              \/ inv.name = "add_middleware" /\ inv.fn = "inc"
        \/ /\ c = "c2"
           /\ \/ inv.name \in {"remove_state", "get_state"} /\ inv.key = "a"
              \/ inv.name = "clear_state"
              \/ inv.name = "unsubscribe" /\ inv.index = 0}

(* The hosts.  The sequential host has one thread: it makes any call, and
   its listeners do anything.  The concurrent host has the two threads
   above.  The plain host is the concurrent host with no history kept. *)
SequentialHost == "sequential"
ConcurrentHost == "concurrent"
PlainHost == "plain"

(* The calls thread c of the host makes *)
Menu(c) == IF host = SequentialHost THEN Invocations ELSE ThreadMenu(c)

(* What the listeners of the host do when they are called *)
Outcomes == IF host = SequentialHost THEN ListenerOutcomes ELSE {"return"}

(* The history variables the properties of the host need *)
History ==
    CASE host = SequentialHost -> {"expect"}
      [] host = ConcurrentHost -> {"expect", "lastEvent"}
      [] OTHER -> {}

-----------------------------------------------------------------------------
(* Construction: WasmStorage::new *)

InitWith(callers) ==
    /\ state = EmptyMap
    /\ listeners = <<>>
    /\ middleware = <<>>
    /\ stateLock = Free
    /\ listenersLock = Free
    /\ middlewareLock = Free
    /\ pc = [c \in callers |-> "idle"]
    /\ call = [c \in callers |-> NoCall]
    /\ loc = [c \in callers |-> NoLocals]
    /\ res = [c \in callers |-> NoResult]
    /\ delivered = [c \in callers |-> <<>>]
    /\ invoked = [c \in callers |-> <<>>]
    /\ expect = EmptyMap
    /\ lastEvent = EmptyMap

Init == InitWith(OneCaller) /\ host = SequentialHost

-----------------------------------------------------------------------------
(* Steps shared by the methods *)

Goto(c, where) == pc' = [pc EXCEPT ![c] = where]

(* Return to the host with result r *)
Finish(c, r) ==
    /\ pc' = [pc EXCEPT ![c] = "done"]
    /\ res' = [res EXCEPT ![c] = r]

(* Mutex::lock on a mutex the calling thread already holds: std leaves the
   behaviour unspecified except that the call does not return.  The thread
   deadlocks (the futex mutex of a threaded build), or it panics (the mutex
   of the single-threaded wasm build); the wasm target aborts on a panic
   without unwinding, so no guard is dropped, the mutexes the thread holds
   stay locked and none is poisoned.  Either way the caller goes no further. *)
NoReturn(c) == \E how \in {"deadlocked", "panicked"} : pc' = [pc EXCEPT ![c] = how]

Relock(c) ==
    /\ NoReturn(c)
    /\ UNCHANGED <<state, listeners, middleware, stateLock, listenersLock,
                   middlewareLock, call, loc, res, delivered, invoked, expect,
                   lastEvent>>

(* The history variables are kept for the properties only, and only in the
   hosts that ask for them *)
SetExpect(new) == expect' = IF "expect" \in History THEN new ELSE expect

SetLastEvent(new) == lastEvent' = IF "lastEvent" \in History THEN new ELSE lastEvent

(* expect without key k: a step has touched k *)
Unsettled(k) == [x \in (DOMAIN expect) \ {k} |-> expect[x]]

(* expect after set_state(k, v) has returned Ok *)
Settled(k, v) == [x \in (DOMAIN expect) \cup {k} |-> IF x = k THEN v ELSE expect[x]]

(* lastEvent without what the listeners were told of key k: a mutation of k
   is committed, its events are still to come *)
Outdated(k) == [p \in {q \in DOMAIN lastEvent : q[2] # k} |-> lastEvent[p]]

(* lastEvent after listener fn was given the event {k, v} *)
Told(fn, k, v) ==
    [p \in (DOMAIN lastEvent) \cup {<<fn, k>>} |->
        IF p = <<fn, k>> THEN v ELSE lastEvent[p]]

(* The host calls an exported method *)
Invoke(c) ==
    /\ pc[c] = "idle"
    /\ \E inv \in Menu(c) :
        /\ inv.name = "subscribe" => Len(listeners) < MaxListeners
        /\ inv.name = "add_middleware" => Len(middleware) < MaxMiddleware
        /\ call' = [call EXCEPT ![c] = inv]
        /\ loc' = [loc EXCEPT ![c] = [NoLocals EXCEPT !.key = inv.key,
                                                      !.value = inv.value,
                                                      !.ret = "done",
                                                      !.pre = IF inv.name \in Mutators \cup ListenerOps
                                                              THEN state ELSE <<>>,
                                                      !.prels = IF inv.name \in ListenerOps
                                                                THEN listeners ELSE <<>>,
                                                      !.premw = IF inv.name \in ListenerOps
                                                                THEN middleware ELSE <<>>]]
        /\ Goto(c, inv.name)
    /\ res' = [res EXCEPT ![c] = NoResult]
    /\ delivered' = [delivered EXCEPT ![c] = <<>>]
    /\ invoked' = [invoked EXCEPT ![c] = <<>>]
    /\ UNCHANGED <<state, listeners, middleware, stateLock, listenersLock,
                   middlewareLock, expect>>
    /\ UNCHANGED <<lastEvent, host>>

(* The host takes the result; the call's frame is gone *)
Return(c) ==
    /\ pc[c] = "done"
    /\ Goto(c, "idle")
    /\ call' = [call EXCEPT ![c] = NoCall]
    /\ loc' = [loc EXCEPT ![c] = NoLocals]
    /\ res' = [res EXCEPT ![c] = NoResult]
    /\ delivered' = [delivered EXCEPT ![c] = <<>>]
    /\ invoked' = [invoked EXCEPT ![c] = <<>>]
    /\ UNCHANGED <<state, listeners, middleware, stateLock, listenersLock,
                   middlewareLock, expect>>
    /\ UNCHANGED <<lastEvent, host>>

-----------------------------------------------------------------------------
(* set_state, remove_state and notify_listeners *)

(* A set_state whose guard on state is dropped before notify_listeners is
   called.  C20 fails with it. *)
set_state_unguarded(c) ==
    /\ pc[c] = "set_state"
    /\ IF stateLock = c THEN Relock(c)
       ELSE /\ stateLock = Free
            /\ state' = Insert(state, loc[c].key, loc[c].value)
            /\ SetExpect(Unsettled(loc[c].key))
            /\ SetLastEvent(Outdated(loc[c].key))
            /\ loc' = [loc EXCEPT ![c].mutator = "set_state"]
            /\ Goto(c, "notify_listeners")
            /\ UNCHANGED <<listeners, middleware, stateLock, listenersLock,
                           middlewareLock, call, res, delivered, invoked>>
    /\ UNCHANGED host

(* set_state up to the call of notify_listeners: lock state, insert *)
set_state(c) ==
    /\ pc[c] = "set_state"
    /\ IF stateLock = c THEN Relock(c)
       ELSE /\ stateLock = Free
            /\ stateLock' = c
            /\ state' = Insert(state, loc[c].key, loc[c].value)
            /\ SetExpect(Unsettled(loc[c].key))
            /\ SetLastEvent(Outdated(loc[c].key))
            /\ loc' = [loc EXCEPT ![c].mutator = "set_state"]
            /\ Goto(c, "notify_listeners")
            /\ UNCHANGED <<listeners, middleware, listenersLock, middlewareLock,
                           call, res, delivered, invoked>>
    /\ UNCHANGED host

(* remove_state up to the call of notify_listeners: lock state, remove *)
remove_state(c) ==
    /\ pc[c] = "remove_state"
    /\ IF stateLock = c THEN Relock(c)
       ELSE /\ stateLock = Free
            /\ stateLock' = c
            /\ state' = Remove(state, loc[c].key)
            /\ SetExpect(Unsettled(loc[c].key))
            /\ SetLastEvent(Outdated(loc[c].key))
            /\ loc' = [loc EXCEPT ![c].mutator = "remove_state", ![c].value = Null]
            /\ Goto(c, "notify_listeners")
            /\ UNCHANGED <<listeners, middleware, listenersLock, middlewareLock,
                           call, res, delivered, invoked>>
    /\ UNCHANGED host

ChangeEvent(key, value) ==
    Obj(<< <<"key", Str(key)>>, <<"value", value>>, <<"timestamp", Num(Now)>> >>)

(* notify_listeners up to the loop: lock listeners, build the event *)
notify_listeners(c) ==
    /\ pc[c] = "notify_listeners"
    /\ IF listenersLock = c THEN Relock(c)
       ELSE /\ listenersLock = Free
            /\ listenersLock' = c
            /\ loc' = [loc EXCEPT ![c].event = ChangeEvent(loc[c].key, loc[c].value),
                                  ![c].li = 1]
            /\ Goto(c, IF Len(listeners) = 0 THEN "notify_return" ELSE "listener_call")
            /\ UNCHANGED <<state, listeners, middleware, stateLock, middlewareLock,
                           call, res, delivered, invoked, expect>>
    /\ UNCHANGED <<lastEvent, host>>

(* listeners.iter().rev(): C2 fails with it. *)
ListenerAtReversed(ls, i) == ls[Len(ls) + 1 - i]

(* listeners.iter(): the i-th listener visited *)
ListenerAt(ls, i) == ls[i]

(* listener.call1(&JsValue::NULL, &change_event): Err(thrown) if the listener
   throws *)
ListenerCall(outcome) ==
    IF outcome = "throw" THEN Err(Str("listener error")) ELSE Ok(Undefined)

(* listener.call1(..)?: the error of a listener goes up.  C8 fails with it. *)
Propagate(result) == result

(* let _ = ...: the Result of the call is dropped, the loop goes on *)
Discard(result) == Ok(Undefined)

(* What the host sees when a listener is called with ev: the listener, the
   event, what the listener did, whether its call came back, and the value
   the map held under the event's key at that moment *)
Delivery(fn, ev, outcome, completed) ==
    [fn |-> fn, event |-> ev, outcome |-> outcome, completed |-> completed,
     seen |-> Lookup(state, PropOf(ev, "key").s)]

(* One iteration of the loop of notify_listeners: let _ = listener.call1(..).
   A listener that calls get_state runs get_state on the caller's thread. *)
listener_call(c) ==
    /\ pc[c] = "listener_call"
    /\ LET i == loc[c].li
           ev == loc[c].event
           fn == ListenerAt(listeners, i)
           next == IF i + 1 > Len(listeners) THEN "notify_return" ELSE "listener_call"
       IN /\ SetLastEvent(Told(fn, loc[c].key, loc[c].value))
          /\ \E outcome \in Outcomes :
               IF outcome = "get_state" /\ stateLock = c
               THEN /\ delivered' = [delivered EXCEPT
                           ![c] = Append(@, Delivery(fn, ev, outcome, FALSE))]
                    /\ NoReturn(c)
                    /\ UNCHANGED loc
               ELSE /\ outcome = "get_state" => stateLock = Free
                    /\ delivered' = [delivered EXCEPT
                           ![c] = Append(@, Delivery(fn, ev, outcome, TRUE))]
                    /\ LET kept == Discard(ListenerCall(outcome)) IN
                         IF kept.status = "err"
                         THEN /\ loc' = [loc EXCEPT ![c].err = kept]
                              /\ Goto(c, "notify_return")
                         ELSE /\ loc' = [loc EXCEPT ![c].li = i + 1]
                              /\ Goto(c, next)
    /\ UNCHANGED <<state, listeners, middleware, stateLock, listenersLock,
                   middlewareLock, call, res, invoked, expect>>
    /\ UNCHANGED host

(* notify_listeners returns Ok(()): its guard on listeners is dropped *)
notify_return(c) ==
    /\ pc[c] = "notify_return"
    /\ listenersLock' = Free
    /\ Goto(c, "mutator_return")
    /\ UNCHANGED <<state, listeners, middleware, stateLock, middlewareLock,
                   call, loc, res, delivered, invoked, expect>>
    /\ UNCHANGED <<lastEvent, host>>

(* set_state or remove_state returns, Ok(()) or the error of
   notify_listeners (`?`): its guard on state is dropped.  An error goes up
   through handle_action and dispatch to the host. *)
mutator_return(c) ==
    /\ pc[c] = "mutator_return"
    /\ stateLock' = Free
    /\ IF loc[c].err.status = "err"
       THEN Finish(c, loc[c].err) /\ UNCHANGED expect
       ELSE /\ SetExpect(IF loc[c].mutator = "set_state"
                         THEN Settled(loc[c].key, loc[c].value)
                         ELSE expect)
            /\ IF loc[c].ret = "done"
               THEN Finish(c, Ok(Undefined))
               ELSE Goto(c, loc[c].ret) /\ UNCHANGED res
    /\ UNCHANGED <<state, listeners, middleware, listenersLock, middlewareLock,
                   call, loc, delivered, invoked>>
    /\ UNCHANGED <<lastEvent, host>>

-----------------------------------------------------------------------------
(* Methods that take one lock, act and return *)

get_state(c) ==
    /\ pc[c] = "get_state"
    /\ IF stateLock = c THEN Relock(c)
       ELSE /\ stateLock = Free
            /\ Finish(c, Ok(Lookup(state, call[c].key)))
            /\ UNCHANGED <<state, listeners, middleware, stateLock, listenersLock,
                           middlewareLock, call, loc, delivered, invoked, expect>>
    /\ UNCHANGED <<lastEvent, host>>

get_all_state(c) ==
    /\ pc[c] = "get_all_state"
    /\ IF stateLock = c THEN Relock(c)
       ELSE /\ stateLock = Free
            /\ Finish(c, OkAll({<<k, state[k]>> : k \in DOMAIN state}))
            /\ loc' = [loc EXCEPT ![c].due = expect]
            /\ UNCHANGED <<state, listeners, middleware, stateLock, listenersLock,
                           middlewareLock, call, delivered, invoked, expect>>
    /\ UNCHANGED <<lastEvent, host>>

subscribe(c) ==
    /\ pc[c] = "subscribe"
    /\ IF listenersLock = c THEN Relock(c)
       ELSE /\ listenersLock = Free
            /\ listeners' = Append(listeners, call[c].fn)
            /\ Finish(c, Ok(Num(Handle(listeners'))))
            /\ UNCHANGED <<state, middleware, stateLock, listenersLock,
                           middlewareLock, call, loc, delivered, invoked, expect>>
    /\ UNCHANGED <<lastEvent, host>>

unsubscribe(c) ==
    /\ pc[c] = "unsubscribe"
    /\ IF listenersLock = c THEN Relock(c)
       ELSE /\ listenersLock = Free
            /\ listeners' = IF call[c].index < Len(listeners)
                            THEN VecRemove(listeners, call[c].index)
                            ELSE listeners
            /\ Finish(c, Ok(Undefined))
            /\ UNCHANGED <<state, middleware, stateLock, listenersLock,
                           middlewareLock, call, loc, delivered, invoked, expect>>
    /\ UNCHANGED <<lastEvent, host>>

add_middleware(c) ==
    /\ pc[c] = "add_middleware"
    /\ IF middlewareLock = c THEN Relock(c)
       ELSE /\ middlewareLock = Free
            /\ middleware' = Append(middleware, call[c].fn)
            /\ Finish(c, Ok(Undefined))
            /\ UNCHANGED <<state, listeners, stateLock, listenersLock,
                           middlewareLock, call, loc, delivered, invoked, expect>>
    /\ UNCHANGED <<lastEvent, host>>

(* A clear_state that goes on to notify_listeners as remove_state does, with
   its guard on state held.  C12 fails with it. *)
clear_state_notifying(c) ==
    /\ pc[c] = "clear_state"
    /\ IF stateLock = c THEN Relock(c)
       ELSE /\ stateLock = Free
            /\ stateLock' = c
            /\ state' = Clear(state)
            /\ SetExpect(EmptyMap)
            /\ SetLastEvent(EmptyMap)
            /\ loc' = [loc EXCEPT ![c].mutator = "clear_state", ![c].value = Null]
            /\ Goto(c, "notify_listeners")
            /\ UNCHANGED <<listeners, middleware, listenersLock, middlewareLock,
                           call, res, delivered, invoked>>
    /\ UNCHANGED host

(* clear_state: lock state, clear, return; no call of notify_listeners *)
clear_state(c) ==
    /\ pc[c] = "clear_state"
    /\ IF stateLock = c THEN Relock(c)
       ELSE /\ stateLock = Free
            /\ state' = Clear(state)
            /\ SetExpect(EmptyMap)
            /\ SetLastEvent(EmptyMap)
            /\ Finish(c, Ok(Undefined))
            /\ UNCHANGED <<listeners, middleware, stateLock, listenersLock,
                           middlewareLock, call, loc, delivered, invoked>>
    /\ UNCHANGED host

-----------------------------------------------------------------------------
(* dispatch, apply_middleware and handle_action *)

(* dispatch up to the loop of apply_middleware: lock middleware *)
dispatch(c) ==
    /\ pc[c] = "dispatch"
    /\ IF middlewareLock = c THEN Relock(c)
       ELSE /\ middlewareLock = Free
            /\ middlewareLock' = c
            /\ loc' = [loc EXCEPT ![c].cur = call[c].payload, ![c].mi = 1]
            /\ Goto(c, IF Len(middleware) = 0 THEN "apply_middleware_return"
                                              ELSE "middleware_call")
            /\ UNCHANGED <<state, listeners, middleware, stateLock, listenersLock,
                           call, res, delivered, invoked, expect>>
    /\ UNCHANGED <<lastEvent, host>>

(* A loop that drops the error of a middleware as notify_listeners drops the
   error of a listener.  C7 fails with it. *)
NextPayloadSwallowing(current, result) ==
    IF result.status = "err" THEN Ok(current)
    ELSE IF ~is_undefined(result.val) /\ ~is_null(result.val)
         THEN ReflectGet(result.val, "payload")
         ELSE Ok(current)

(* The payload after a middleware answered result (a Result): Err(e) where
   the code returns early with `?`, Ok(payload) otherwise *)
NextPayload(current, result) ==
    IF result.status = "err" THEN result
    ELSE IF ~is_undefined(result.val) /\ ~is_null(result.val)
         THEN ReflectGet(result.val, "payload")
         ELSE Ok(current)

(* middleware.iter().rev(): C9 fails with it. *)
MiddlewareAtReversed(mw, i) == mw[Len(mw) + 1 - i]

(* middleware.iter(): the i-th middleware visited *)
MiddlewareAt(mw, i) == mw[i]

(* One iteration of the loop of apply_middleware *)
middleware_call(c) ==
    /\ pc[c] = "middleware_call"
    /\ LET i == loc[c].mi
           action_obj == ActionObj(call[c].kind, loc[c].cur)
           fn == MiddlewareAt(middleware, i)
           result == MiddlewareCall(fn, action_obj)
           np == NextPayload(loc[c].cur, result)
       IN /\ invoked' = [invoked EXCEPT ![c] = Append(@,
                  [fn |-> fn, payload |-> loc[c].cur, result |-> result])]
          /\ IF np.status = "err"
             THEN /\ loc' = [loc EXCEPT ![c].err = np]
                  /\ Goto(c, "apply_middleware_return")
             ELSE /\ loc' = [loc EXCEPT ![c].cur = np.val, ![c].mi = i + 1]
                  /\ Goto(c, IF i + 1 > Len(middleware) THEN "apply_middleware_return"
                                                        ELSE "middleware_call")
    /\ UNCHANGED <<state, listeners, middleware, stateLock, listenersLock,
                   middlewareLock, call, res, delivered, expect>>
    /\ UNCHANGED <<lastEvent, host>>

(* apply_middleware inlined into dispatch: the guard on middleware lives on
   through handle_action.  C19 fails with it. *)
apply_middleware_return_holding(c) ==
    /\ pc[c] = "apply_middleware_return"
    /\ IF loc[c].err.status = "err"
       THEN Finish(c, loc[c].err)
       ELSE Goto(c, "handle_action") /\ UNCHANGED res
    /\ UNCHANGED <<state, listeners, middleware, stateLock, listenersLock,
                   middlewareLock, call, loc, delivered, invoked, expect>>
    /\ UNCHANGED <<lastEvent, host>>

(* apply_middleware returns: its guard on middleware is dropped; dispatch
   returns its error, or goes on to handle_action *)
apply_middleware_return(c) ==
    /\ pc[c] = "apply_middleware_return"
    /\ middlewareLock' = Free
    /\ IF loc[c].err.status = "err"
       THEN Finish(c, loc[c].err)
       ELSE Goto(c, "handle_action") /\ UNCHANGED res
    /\ UNCHANGED <<state, listeners, middleware, stateLock, listenersLock,
                   call, loc, delivered, invoked, expect>>
    /\ UNCHANGED <<lastEvent, host>>

(* One key for every unrecognized kind.  C13 fails with it. *)
ActionsKeyOfAny(action_type) == "__actions_"

(* format!("__actions_{}", event.action_type) *)
ActionsKey(action_type) == "__actions_" \o action_type

(* handle_action: the match on the action type *)
handle_action(c) ==
    /\ pc[c] = "handle_action"
    /\ LET type == call[c].kind
           payload == loc[c].cur
       IN CASE type = "SET_STATE" ->
                 /\ IF is_object(payload)
                    THEN /\ loc' = [loc EXCEPT ![c].entries = ObjectEntries(payload),
                                               ![c].ei = 1]
                         /\ Goto(c, "set_entries")
                         /\ UNCHANGED res
                    ELSE Finish(c, Ok(Undefined)) /\ UNCHANGED loc
                 /\ UNCHANGED <<state, stateLock, expect, lastEvent>>
            [] type = "REMOVE_STATE" ->
                 /\ IF as_string(payload) # <<>>
                    THEN /\ loc' = [loc EXCEPT ![c].key = as_string(payload)[1],
                                               ![c].ret = "done"]
                         /\ Goto(c, "remove_state")
                         /\ UNCHANGED res
                    ELSE Finish(c, Ok(Undefined)) /\ UNCHANGED loc
                 /\ UNCHANGED <<state, stateLock, expect, lastEvent>>
            [] type = "CLEAR_STATE" ->
                 /\ Goto(c, "clear_state")
                 /\ UNCHANGED <<state, stateLock, expect, lastEvent, loc, res>>
            [] OTHER ->
                 IF stateLock = c
                 THEN /\ NoReturn(c)
                      /\ UNCHANGED <<state, stateLock, expect, lastEvent, loc, res>>
                 ELSE /\ stateLock = Free
                      /\ state' = Insert(state, ActionsKey(type), payload)
                      /\ SetExpect(Unsettled(ActionsKey(type)))
                      /\ SetLastEvent(Outdated(ActionsKey(type)))
                      /\ Finish(c, Ok(Undefined))
                      /\ UNCHANGED <<stateLock, loc>>
    /\ UNCHANGED <<listeners, middleware, listenersLock, middlewareLock,
                   call, delivered, invoked>>
    /\ UNCHANGED host

(* The loop of the SET_STATE arm: one set_state per entry *)
set_entries(c) ==
    /\ pc[c] = "set_entries"
    /\ LET i == loc[c].ei IN
         IF i <= Len(loc[c].entries)
         THEN /\ loc' = [loc EXCEPT ![c].key = loc[c].entries[i][1],
                                    ![c].value = loc[c].entries[i][2],
                                    ![c].ei = i + 1,
                                    ![c].ret = "set_entries"]
              /\ Goto(c, "set_state")
              /\ UNCHANGED res
         ELSE Finish(c, Ok(Undefined)) /\ UNCHANGED loc
    /\ UNCHANGED <<state, listeners, middleware, stateLock, listenersLock,
                   middlewareLock, call, delivered, invoked, expect>>
    /\ UNCHANGED <<lastEvent, host>>

-----------------------------------------------------------------------------

(* One host thread: the steps of its calls *)
Next ==
    \E c \in OneCaller :
        \/ Invoke(c)
        \/ Return(c)
        \/ set_state(c)
        \/ remove_state(c)
        \/ notify_listeners(c)
        \/ listener_call(c)
        \/ notify_return(c)
        \/ mutator_return(c)
        \/ get_state(c)
        \/ get_all_state(c)
        \/ subscribe(c)
        \/ unsubscribe(c)
        \/ add_middleware(c)
        \/ clear_state(c)
        \/ dispatch(c)
        \/ middleware_call(c)
        \/ apply_middleware_return(c)
        \/ handle_action(c)
        \/ set_entries(c)

Spec == Init /\ [][Next]_vars

-----------------------------------------------------------------------------
InitConc == InitWith(TwoCallers) /\ host = ConcurrentHost

(* Two host threads: at each step one of them takes a step of its call *)
NextConc ==
    \E c \in TwoCallers :
        \/ Invoke(c)
        \/ Return(c)
        \/ set_state(c)
        \/ remove_state(c)
        \/ notify_listeners(c)
        \/ listener_call(c)
        \/ notify_return(c)
        \/ mutator_return(c)
        \/ get_state(c)
        \/ get_all_state(c)
        \/ subscribe(c)
        \/ unsubscribe(c)
        \/ add_middleware(c)
        \/ clear_state(c)
        \/ dispatch(c)
        \/ middleware_call(c)
        \/ apply_middleware_return(c)
        \/ handle_action(c)
        \/ set_entries(c)

SpecConc == InitConc /\ [][NextConc]_vars

(* The steps of the container's code in a call of thread c: every step but
   the host's own, the call and the taking of its result *)
Proceed(c) ==
    \/ set_state(c)
    \/ remove_state(c)
    \/ notify_listeners(c)
    \/ listener_call(c)
    \/ notify_return(c)
    \/ mutator_return(c)
    \/ get_state(c)
    \/ get_all_state(c)
    \/ subscribe(c)
    \/ unsubscribe(c)
    \/ add_middleware(c)
    \/ clear_state(c)
    \/ dispatch(c)
    \/ middleware_call(c)
    \/ apply_middleware_return(c)
    \/ handle_action(c)
    \/ set_entries(c)

(* Fair scheduling: a thread whose next step is possible again and again,
   a Mutex::lock on a mutex that is released again and again included,
   takes it in the end *)
InitFair == InitWith(TwoCallers) /\ host = PlainHost

SpecFair ==
    /\ InitFair
    /\ [][NextConc]_vars
    /\ \A c \in TwoCallers : SF_vars(Proceed(c))

-----------------------------------------------------------------------------
(* Properties *)

Callers == DOMAIN pc

Returned(c, name) == pc[c] = "done" /\ call[c].name = name

ReturnedOk(c, name) == Returned(c, name) /\ res[c].status = "ok"

(* ev is the ChangeEvent {key: k, value: v} *)
EventIs(ev, k, v) ==
    /\ ev.t = "obj"
    /\ HasProp(ev, "key") /\ PropOf(ev, "key") = Str(k)
    /\ HasProp(ev, "value") /\ PropOf(ev, "value") = v

(* Entries from..from+n-1 of log are one call of each of the n registered
   listeners, in registration order, with the event {k, v} *)
OneEach(log, from, k, v) ==
    /\ Len(log) >= from + Len(listeners) - 1
    /\ \A j \in 1..Len(listeners) :
         /\ log[from + j - 1].fn = listeners[j]
         /\ EventIs(log[from + j - 1].event, k, v)

(* C1: after set_state(k, v) has returned Ok, the map holds v under k, and
   every get_state(k) returns v until a set, remove, clear or dispatch
   touches k (expect holds exactly the keys no such step has touched since
   their last successful set_state). *)
C1_SetThenGet ==
    \A c \in Callers :
        /\ ReturnedOk(c, "set_state") =>
              /\ call[c].key \in DOMAIN state
              /\ state[call[c].key] = call[c].value
        /\ (Returned(c, "get_state") /\ call[c].key \in DOMAIN expect) =>
              res[c] = Ok(expect[call[c].key])

C1_Witness ==
    \E c \in Callers :
        /\ Returned(c, "get_state")
        /\ call[c].key \in DOMAIN expect
        /\ res[c] = Ok(Num(2))
        /\ Cardinality(DOMAIN state) = 3

(* C2: when the notification of a set_state(k, v) is complete, the call has
   made exactly one call of each registered listener for it, in registration
   order, each with the event {k, v}, and at each of these calls the map held
   v under k. *)
SetsSoFar(c) == IF call[c].name = "set_state" THEN 1 ELSE loc[c].ei - 1

C2_SetNotifiesEach ==
    \A c \in Callers :
        (loc[c].mutator = "set_state" /\ pc[c] \in {"listener_call", "notify_return"}) =>
            LET n == Len(listeners)
                from == (SetsSoFar(c) - 1) * n + 1
                sent == Len(delivered[c]) - from + 1
            IN /\ sent \in 0..n
               /\ pc[c] = "notify_return" => sent = n
               /\ \A j \in 1..sent :
                    /\ delivered[c][from + j - 1].fn = listeners[j]
                    /\ EventIs(delivered[c][from + j - 1].event, loc[c].key, loc[c].value)
                    /\ delivered[c][from + j - 1].seen = loc[c].value

C2_Witness ==
    \E c \in Callers :
        /\ pc[c] = "notify_return"
        /\ call[c].name = "set_state"
        /\ listeners = <<"g", "f">>
        /\ Len(delivered[c]) = 2
        /\ call[c].value = Num(2)

(* C3: a dispatch of SET_STATE whose object payload of n pairs reaches the
   reducer as it was dispatched leaves every pair in the map and has called
   each registered listener exactly n times: pair by pair in the payload's
   iteration order, and for each pair the listeners in registration order. *)
C3_SetStateDispatch ==
    \A c \in Callers :
        (/\ ReturnedOk(c, "dispatch")
         /\ call[c].kind = "SET_STATE"
         /\ call[c].payload.t = "obj"
         /\ loc[c].cur = call[c].payload) =>
            LET pairs == call[c].payload.e
                n == Len(pairs)
                m == Len(listeners)
            IN /\ \A i \in 1..n : Lookup(state, pairs[i][1]) = pairs[i][2]
               /\ Len(delivered[c]) = n * m
               /\ \A i \in 1..n :
                    OneEach(delivered[c], (i - 1) * m + 1, pairs[i][1], pairs[i][2])

C3_Witness ==
    \E c \in Callers :
        /\ ReturnedOk(c, "dispatch")
        /\ call[c].kind = "SET_STATE"
        /\ call[c].payload.t = "obj"
        /\ Len(call[c].payload.e) = 2
        /\ loc[c].cur = call[c].payload
        /\ listeners = <<"f", "g">>
        /\ Len(delivered[c]) = 4
        /\ Len(invoked[c]) >= 1

KnownKinds == {"SET_STATE", "REMOVE_STATE", "CLEAR_STATE"}

(* C4: a dispatch of an unrecognized kind K that returned Ok has called each
   registered listener exactly once, with the event {"__actions_" + K, p} for
   the payload p it stored. *)
C4_UnknownKindNotifies ==
    \A c \in Callers :
        (ReturnedOk(c, "dispatch") /\ call[c].kind \notin KnownKinds) =>
            /\ Len(delivered[c]) = Len(listeners)
            /\ OneEach(delivered[c], 1, "__actions_" \o call[c].kind, loc[c].cur)

(* A middleware answer with no usable payload: nothing (undefined or null),
   or a value that is no object or has no payload property *)
Unusable(result) ==
    /\ result.status = "ok"
    /\ \/ result.val.t \in {"undef", "null"}
       \/ result.val.t # "obj"
       \/ ~HasProp(result.val, "payload")

(* C5: a middleware that returns nothing, or a value without a usable payload
   field, leaves the payload as it was given: the next middleware, and after
   the last one the reducer, get that payload, and the dispatch does not fail
   on that answer. *)
C5_UnusableAnswerKeepsPayload ==
    \A c \in Callers :
        \A i \in 1..Len(invoked[c]) :
            Unusable(invoked[c][i].result) =>
                IF i < Len(invoked[c])
                THEN invoked[c][i + 1].payload = invoked[c][i].payload
                ELSE /\ loc[c].err.status # "err"
                     /\ loc[c].cur = invoked[c][i].payload

(* C6: a listener that calls get_state from its callback gets an answer:
   the call comes back, and the caller that triggered the notification is
   not stuck in it. *)
C6_ListenerGetCompletes ==
    \A c \in Callers :
        \A i \in 1..Len(delivered[c]) :
            delivered[c][i].outcome = "get_state" =>
                /\ delivered[c][i].completed
                /\ pc[c] \notin {"deadlocked", "panicked"}

(* C7: once a middleware has thrown during a dispatch, no further middleware
   is called, the reducer is not reached, the map is the one the dispatch
   started from, no listener has been called, and the dispatch returns the
   thrown value as its error. *)
C7_MiddlewareErrorAborts ==
    \A c \in Callers :
        LET thrown == {i \in 1..Len(invoked[c]) : invoked[c][i].result.status = "err"}
        IN thrown # {} =>
            /\ thrown = {Len(invoked[c])}
            /\ pc[c] \in {"apply_middleware_return", "done"}
            /\ state = loc[c].pre
            /\ delivered[c] = <<>>
            /\ pc[c] = "done" => res[c] = invoked[c][Len(invoked[c])].result

C7_Witness ==
    \E c \in Callers :
        /\ Returned(c, "dispatch")
        /\ call[c].kind = "REMOVE_STATE"
        /\ res[c].status = "err"
        /\ res[c].val = Str("rejected")
        /\ middleware = <<"dbl", "inc">>
        /\ Len(invoked[c]) = 1
        /\ Len(listeners) = 2
        /\ "a" \in DOMAIN state

(* C8: when a listener throws during the notification of a set_state or
   remove_state call, the notification still calls every registered listener
   once, in order, all with one event; the mutation stays in the map; the
   call returns Ok; and the throw never stops the caller. *)
C8_ListenerErrorSwallowed ==
    \A c \in Callers :
        (/\ call[c].name \in {"set_state", "remove_state"}
         /\ \E i \in 1..Len(delivered[c]) : delivered[c][i].outcome = "throw") =>
            /\ loc[c].err.status # "err"
            /\ pc[c] \in {"deadlocked", "panicked"} =>
                  delivered[c][Len(delivered[c])].outcome = "get_state"
            /\ pc[c] \in {"notify_return", "mutator_return", "done"} =>
                  /\ Len(delivered[c]) = Len(listeners)
                  /\ \A j \in 1..Len(listeners) :
                        /\ delivered[c][j].fn = listeners[j]
                        /\ delivered[c][j].event = delivered[c][1].event
                  /\ IF call[c].name = "set_state"
                     THEN Lookup(state, call[c].key) = call[c].value
                     ELSE call[c].key \notin DOMAIN state
            /\ pc[c] = "done" => res[c] = Ok(Undefined)

C8_Witness ==
    \E c \in Callers :
        /\ ReturnedOk(c, "set_state")
        /\ listeners = <<"f", "g">>
        /\ Len(delivered[c]) = 2
        /\ delivered[c][1].outcome = "throw"
        /\ delivered[c][2].outcome = "return"
        /\ Lookup(state, call[c].key) = Num(2)

(* What a chain of inc and dbl makes of the number n, first to last *)
RECURSIVE Composed(_, _)
Composed(chain, n) ==
    IF chain = <<>> THEN n
    ELSE Composed(Tail(chain), IF Head(chain) = "inc" THEN n + 1 ELSE 2 * n)

(* The payload after one recorded middleware call: the payload property of
   what the middleware returned, or the payload it was given if it returned
   nothing *)
PayloadAfter(entry) ==
    IF entry.result.val.t \in {"undef", "null"} THEN entry.payload
    ELSE IF HasProp(entry.result.val, "payload") THEN PropOf(entry.result.val, "payload")
    ELSE Undefined

(* C9: when a dispatch reaches the reducer, the middleware have been called
   once each in registration order, the first with the dispatched payload,
   each later one with the payload the one before it returned, and the
   reducer gets the payload of the last: for a numeric payload n and a chain
   of inc and dbl that is the chain applied first to last. *)
C9_MiddlewareInOrder ==
    \A c \in Callers :
        /\ pc[c] = "handle_action" =>
            LET m == Len(middleware) IN
            /\ Len(invoked[c]) = m
            /\ \A i \in 1..m :
                 /\ invoked[c][i].fn = middleware[i]
                 /\ invoked[c][i].payload =
                      IF i = 1 THEN call[c].payload ELSE PayloadAfter(invoked[c][i - 1])
            /\ loc[c].cur = IF m = 0 THEN call[c].payload ELSE PayloadAfter(invoked[c][m])
            /\ call[c].payload.t = "num" =>
                 loc[c].cur = Num(Composed(middleware, call[c].payload.n))
        /\ (ReturnedOk(c, "dispatch") /\ call[c].kind = "FOO" /\ call[c].payload.t = "num") =>
            Lookup(state, "__actions_FOO") = Num(Composed(middleware, call[c].payload.n))

C9_Witness ==
    \E c \in Callers :
        /\ ReturnedOk(c, "dispatch")
        /\ call[c].kind = "FOO"
        /\ call[c].payload = Num(1)
        /\ middleware = <<"inc", "dbl">>
        /\ Lookup(state, "__actions_FOO") = Num(4)

(* C10: a remove_state(k) that returned Ok has taken k out of the map and
   left every other key as it was (so nothing changed if k was absent), and
   has called each registered listener exactly once, in registration order,
   with the event {k, null}. *)
C10_RemoveNotifiesOnce ==
    \A c \in Callers :
        ReturnedOk(c, "remove_state") =>
            /\ DOMAIN state = (DOMAIN loc[c].pre) \ {call[c].key}
            /\ \A x \in DOMAIN state : state[x] = loc[c].pre[x]
            /\ Len(delivered[c]) = Len(listeners)
            /\ OneEach(delivered[c], 1, call[c].key, Null)

C10_Witness ==
    \E c \in Callers :
        /\ ReturnedOk(c, "remove_state")
        /\ call[c].key \notin DOMAIN loc[c].pre
        /\ state = loc[c].pre
        /\ state # EmptyMap
        /\ Len(listeners) = 2
        /\ Len(delivered[c]) = 2

(* A clear has returned Ok to c: clear_state, or a dispatch of CLEAR_STATE *)
ClearedOk(c) ==
    \/ ReturnedOk(c, "clear_state")
    \/ ReturnedOk(c, "dispatch") /\ call[c].kind = "CLEAR_STATE"

(* C11: after clear_state, or a dispatch of CLEAR_STATE with any payload
   that no middleware failed, the map is empty whatever it held; and on an
   empty map get_all_state returns the empty mapping, and get_state of any
   key returns null. *)
C11_ClearEmpties ==
    \A c \in Callers :
        /\ ClearedOk(c) => DOMAIN state = {}
        /\ (Returned(c, "get_all_state") /\ DOMAIN state = {}) =>
              (res[c].status = "ok" /\ res[c].all = {})
        /\ (Returned(c, "get_state") /\ DOMAIN state = {}) => res[c] = Ok(Null)

C11_Witness ==
    \E c \in Callers :
        /\ ReturnedOk(c, "dispatch")
        /\ call[c].kind = "CLEAR_STATE"
        /\ call[c].payload.t = "obj"
        /\ Cardinality(DOMAIN loc[c].pre) = 3
        /\ Len(invoked[c]) = 1
        /\ DOMAIN state = {}

(* C12: a clear that returned Ok has called no listener, however many keys
   it deleted and however many listeners are registered, whereas a
   remove_state that returned Ok has called every registered listener, even
   for a key that was absent. *)
C12_ClearIsSilent ==
    \A c \in Callers :
        /\ ClearedOk(c) => delivered[c] = <<>>
        /\ ReturnedOk(c, "remove_state") => Len(delivered[c]) = Len(listeners)

C12_Witness ==
    \E c \in Callers :
        /\ ReturnedOk(c, "clear_state")
        /\ Cardinality(DOMAIN loc[c].pre) >= 2
        /\ Len(listeners) = 2
        /\ delivered[c] = <<>>
        /\ DOMAIN state = {}

(* C13: a dispatch of an unrecognized kind K that returned Ok has stored the
   payload the reducer was given under "__actions_" + K, so that get_state
   of that key returns it, and has left every other key as it was; with no
   middleware registered that payload is the dispatched one. *)
C13_UnknownKindStored ==
    \A c \in Callers :
        (ReturnedOk(c, "dispatch") /\ call[c].kind \notin KnownKinds) =>
            LET key == "__actions_" \o call[c].kind IN
            /\ key \in DOMAIN state
            /\ state[key] = loc[c].cur
            /\ Lookup(state, key) = loc[c].cur
            /\ middleware = <<>> => state[key] = call[c].payload
            /\ DOMAIN state = (DOMAIN loc[c].pre) \cup {key}
            /\ \A x \in (DOMAIN state) \ {key} : state[x] = loc[c].pre[x]

C13_Witness ==
    \E c \in Callers :
        /\ ReturnedOk(c, "dispatch")
        /\ call[c].kind = "FOO"
        /\ middleware = <<>>
        /\ call[c].payload.t = "obj"
        /\ "__actions_FOO" \in DOMAIN loc[c].pre
        /\ loc[c].pre["__actions_FOO"] = Num(1)
        /\ state["__actions_FOO"] = call[c].payload
        /\ {"a", "b"} \subseteq DOMAIN state

(* C14: a dispatch of REMOVE_STATE whose payload reaches the reducer as the
   string k, and that returned Ok, has taken k out of the map and left every
   other key as it was. *)
C14_RemoveStateDispatch ==
    \A c \in Callers :
        (/\ ReturnedOk(c, "dispatch")
         /\ call[c].kind = "REMOVE_STATE"
         /\ loc[c].cur.t = "str") =>
            LET k == loc[c].cur.s IN
            /\ DOMAIN state = (DOMAIN loc[c].pre) \ {k}
            /\ \A x \in DOMAIN state : state[x] = loc[c].pre[x]
            /\ Lookup(state, k) = Null

C14_Witness ==
    \E c \in Callers :
        /\ ReturnedOk(c, "dispatch")
        /\ call[c].kind = "REMOVE_STATE"
        /\ call[c].payload = Str("a")
        /\ loc[c].cur = Str("a")
        /\ DOMAIN loc[c].pre = {"a", "b", "__actions_FOO"}
        /\ DOMAIN state = {"b", "__actions_FOO"}

(* C15: subscribe returns the number of listeners registered just before the
   call, and the new listener is registered last, after those that were
   there: the first subscribe returns 0, and a subscribe on a container left
   with no listener returns 0 again. *)
C15_HandleIsCountBefore ==
    \A c \in Callers :
        Returned(c, "subscribe") =>
            /\ res[c] = Ok(Num(Len(loc[c].prels)))
            /\ listeners = Append(loc[c].prels, call[c].fn)
            /\ loc[c].prels = <<>> => res[c].val = Num(0)

C15_Witness ==
    \E c \in Callers :
        /\ Returned(c, "subscribe")
        /\ loc[c].prels = <<"g">>
        /\ call[c].fn = "f"
        /\ res[c] = Ok(Num(1))
        /\ state # EmptyMap

(* C16: unsubscribe(h) returns Ok.  With h below the number of listeners it
   takes out the listener at position h and no other: those before it stay,
   those after it move down one position, their order kept.  With any other
   h the listeners stay as they were.  The map and the middleware are as
   they were in both cases. *)
C16_UnsubscribeRemovesPosition ==
    \A c \in Callers :
        Returned(c, "unsubscribe") =>
            LET h == call[c].index
                old == loc[c].prels
            IN /\ res[c] = Ok(Undefined)
               /\ IF h < Len(old)
                  THEN /\ Len(listeners) = Len(old) - 1
                       /\ \A j \in 1..Len(listeners) :
                            listeners[j] = IF j <= h THEN old[j] ELSE old[j + 1]
                  ELSE listeners = old
               /\ state = loc[c].pre
               /\ middleware = loc[c].premw

C16_Witness ==
    \E c \in Callers :
        /\ Returned(c, "unsubscribe")
        /\ call[c].index = 0
        /\ loc[c].prels = <<"f", "g">>
        /\ listeners = <<"g">>
        /\ state # EmptyMap
        /\ middleware # <<>>

(* C17: with two threads calling set_state concurrently, each on its own
   key, every set_state that returns returns Ok and no written pair is lost:
   the map holds the value of every set_state that has returned, until a
   later step touches its key, and a get_all_state returns every such pair
   there is when it reads the map. *)
C17_NoLostUpdate ==
    \A c \in Callers :
        /\ Returned(c, "set_state") => res[c] = Ok(Undefined)
        /\ \A k \in DOMAIN expect : k \in DOMAIN state /\ state[k] = expect[k]
        /\ Returned(c, "get_all_state") =>
              /\ res[c].status = "ok"
              /\ \A k \in DOMAIN loc[c].due : <<k, loc[c].due[k]>> \in res[c].all

C17_Witness ==
    /\ Returned("c1", "get_all_state")
    /\ DOMAIN loc["c1"].due = {"a", "b"}
    /\ res["c1"].all = {<<"a", Num(1)>>, <<"b", Num(2)>>}
    /\ ReturnedOk("c2", "set_state")
    /\ Len(listeners) = 2

(* The payload the reducer was given is malformed for the kind dispatched *)
Malformed(c) ==
    \/ call[c].kind = "SET_STATE" /\ loc[c].cur.t # "obj"
    \/ call[c].kind = "REMOVE_STATE" /\ loc[c].cur.t # "str"

(* C18: a dispatch of SET_STATE whose payload reaches the reducer as
   something other than an object, or of REMOVE_STATE whose payload reaches
   it as something other than a string, returns Ok, leaves the map as it
   was and calls no listener. *)
C18_MalformedPayloadIgnored ==
    \A c \in Callers :
        (/\ call[c].name = "dispatch"
         /\ loc[c].err.status # "err"
         /\ Malformed(c)) =>
            /\ pc[c] \in {"handle_action", "done"} => state = loc[c].pre
            /\ pc[c] \in {"dispatch", "middleware_call", "apply_middleware_return",
                          "handle_action", "done"}
            /\ delivered[c] = <<>>
            /\ pc[c] = "done" => res[c] = Ok(Undefined)

C18_Witness ==
    \E c \in Callers :
        /\ ReturnedOk(c, "dispatch")
        /\ call[c].kind = "REMOVE_STATE"
        /\ call[c].payload = Num(1)
        /\ loc[c].cur = Num(4)
        /\ Len(listeners) = 2
        /\ delivered[c] = <<>>
        /\ state = loc[c].pre
        /\ state # EmptyMap

(* A thread takes a lock it did not hold *)
Takes(c, lock) == lock # c /\ lock' = c

(* C19 (order): a thread takes the state lock or the middleware lock only
   while it holds no lock, and the listeners lock only while it holds the
   state lock or no lock: the middleware lock is released before the state
   lock is taken, and no lock is ever taken in a circular order. *)
LockOrder ==
    \A c \in TwoCallers :
        /\ Takes(c, stateLock) => (listenersLock # c /\ middlewareLock # c)
        /\ Takes(c, middlewareLock) => (stateLock # c /\ listenersLock # c)
        /\ Takes(c, listenersLock) => middlewareLock # c

Started(c) == pc[c] \notin {"idle", "done"}

(* C19: with two threads calling the methods concurrently and no listener
   calling back into the container, the locks are taken in the order above,
   no thread is ever stuck in a lock it holds, and under fair scheduling
   every call that has started returns. *)
C19_EveryCallReturns ==
    /\ [][LockOrder]_vars
    /\ [](\A c \in TwoCallers : pc[c] \notin {"deadlocked", "panicked"})
    /\ \A c \in TwoCallers : Started(c) ~> (pc[c] = "done")

C19_Witness ==
    /\ pc["c1"] = "handle_action"
    /\ call["c1"].kind = "SET_STATE"
    /\ Len(invoked["c1"]) = 2
    /\ pc["c2"] = "listener_call"
    /\ stateLock = "c2"
    /\ listenersLock = "c2"
    /\ Len(listeners) = 2

(* The steps of a set_state or remove_state after the mutation is in the
   map: the notification, up to the return of the method *)
NotifySteps == {"notify_listeners", "listener_call", "notify_return", "mutator_return"}

(* C20: with two threads mutating concurrently, the mutation a thread is
   notifying is the last one committed: the thread holds the state lock
   until the notification is over, the map still holds the value of its
   event, every listener it called saw that value in the map, and no other
   thread is notifying.  Hence the value of the last event a listener was
   given for a key is the value the map holds for it (null if absent),
   unless a clear has come since. *)
C20_EventsInCommitOrder ==
    /\ \A c \in Callers :
          /\ pc[c] \in NotifySteps =>
                /\ stateLock = c
                /\ Lookup(state, loc[c].key) = loc[c].value
                /\ \A d \in Callers \ {c} : pc[d] \notin NotifySteps
          /\ \A i \in 1..Len(delivered[c]) :
                delivered[c][i].seen = PropOf(delivered[c][i].event, "value")
    /\ \A p \in DOMAIN lastEvent : lastEvent[p] = Lookup(state, p[2])

C20_Witness ==
    /\ pc["c2"] = "listener_call"
    /\ call["c2"].name = "remove_state"
    /\ Len(listeners) = 2
    /\ Len(delivered["c2"]) = 1
    /\ lastEvent[<<"f", "a">>] = Null
    /\ pc["c1"] = "set_state"
    /\ call["c1"].name = "set_state"
    /\ "b" \in DOMAIN state

=============================================================================
